---- MODULE Spec2Model ----
(***************************************************************************)
(* crabxss: a batch scanner for reflected query parameters.                *)
(*                                                                         *)
(* The model has two layers.  The pure layer gives, as operators, what     *)
(* check_xss_reflection computes once the response is known: URL parsing,  *)
(* query_pairs, urlencoding::decode, the eleven patterns of                *)
(* extract_tags_from_param and the body.contains test.  The state machine  *)
(* is main: the stream of spawned tasks behind buffer_unordered, the       *)
(* collected result vector and the printing loop.                          *)
(*                                                                         *)
(* A Rust string is modelled as the sequence of its UTF-8 bytes (numbers   *)
(* 0..255).  Str turns a tuple of one-character strings into such a        *)
(* sequence so that literals stay readable.                                *)
(***************************************************************************)
EXTENDS Integers, Sequences, FiniteSets, TLC

VARIABLES urls, headers, threads, server, mainpc, next, task, inflight, results, printed

vars == <<urls, headers, threads, server, mainpc, next, task, inflight, results, printed>>

(***************************************************************************)
(* Bounds of the model.                                                    *)
(***************************************************************************)
MaxUrls == 2
MaxThreads == 2
MaxHeaders == 2

(***************************************************************************)
(* Characters and bytes.                                                   *)
(***************************************************************************)
\* the printable ASCII characters 32..95 and 97..126, in code order
AsciiLow ==
    <<" ", "!", "\"", "#", "$", "%", "&", "'", "(", ")", "*", "+", ",", "-", ".", "/",
      "0", "1", "2", "3", "4", "5", "6", "7", "8", "9", ":", ";", "<", "=", ">", "?",
      "@", "A", "B", "C", "D", "E", "F", "G", "H", "I", "J", "K", "L", "M", "N", "O",
      "P", "Q", "R", "S", "T", "U", "V", "W", "X", "Y", "Z", "[", "\\", "]", "^", "_">>

AsciiHigh ==
    <<"a", "b", "c", "d", "e", "f", "g", "h", "i", "j", "k", "l", "m", "n", "o",
      "p", "q", "r", "s", "t", "u", "v", "w", "x", "y", "z", "{", "|", "}", "~">>

OrdTable ==
    [c \in {AsciiLow[i] : i \in 1..Len(AsciiLow)} \cup {AsciiHigh[i] : i \in 1..Len(AsciiHigh)} |->
        IF \E i \in 1..Len(AsciiLow) : AsciiLow[i] = c
        THEN 31 + (CHOOSE i \in 1..Len(AsciiLow) : AsciiLow[i] = c)
        ELSE 96 + (CHOOSE i \in 1..Len(AsciiHigh) : AsciiHigh[i] = c)]

Ord(c) == OrdTable[c]

Str(t) == [i \in 1..Len(t) |-> Ord(t[i])]

Drop(s, n) == SubSeq(s, n + 1, Len(s))

Take(s, n) == SubSeq(s, 1, n)

\* position of the first b in s at or after i, 0 when there is none
RECURSIVE IndexFrom(_, _, _)
IndexFrom(s, b, i) ==
    IF i > Len(s) THEN 0
    ELSE IF s[i] = b THEN i
    ELSE IndexFrom(s, b, i + 1)

StartsWithAt(s, lit, i) ==
    /\ i + Len(lit) - 1 <= Len(s)
    /\ \A k \in 1..Len(lit) : s[i + k - 1] = lit[k]

\* str::contains: literal substring test
Contains(s, sub) ==
    \E i \in 1..(Len(s) - Len(sub) + 1) : StartsWithAt(s, sub, i)

IsHexDigit(b) ==
    \/ b \in Ord("0")..Ord("9")
    \/ b \in Ord("a")..Ord("f")
    \/ b \in Ord("A")..Ord("F")

HexVal(b) ==
    IF b \in Ord("0")..Ord("9") THEN b - Ord("0")
    ELSE IF b \in Ord("a")..Ord("f") THEN b - Ord("a") + 10
    ELSE b - Ord("A") + 10

HexDigitUpper(n) == IF n < 10 THEN Ord("0") + n ELSE Ord("A") + n - 10

(***************************************************************************)
(* UTF-8, as std's String::from_utf8 and String::from_utf8_lossy see it.   *)
(* Utf8Len(s, i) is the length of the well-formed sequence starting at i,  *)
(* or 0; Utf8BadLen(s, i) is the length of the ill-formed prefix that      *)
(* from_utf8_lossy replaces by one U+FFFD.                                 *)
(***************************************************************************)
IsCont(s, i, lo, hi) == i <= Len(s) /\ s[i] >= lo /\ s[i] <= hi

SecondLo(b) == IF b = 224 THEN 160 ELSE IF b = 240 THEN 144 ELSE 128

SecondHi(b) == IF b = 237 THEN 159 ELSE IF b = 244 THEN 143 ELSE 191

Utf8Need(b) ==
    IF b < 128 THEN 1
    ELSE IF b >= 194 /\ b <= 223 THEN 2
    ELSE IF b >= 224 /\ b <= 239 THEN 3
    ELSE IF b >= 240 /\ b <= 244 THEN 4
    ELSE 0

Utf8Len(s, i) ==
    LET b == s[i]
        n == Utf8Need(b)
    IN  IF n = 1 THEN 1
        ELSE IF n = 0 THEN 0
        ELSE IF /\ IsCont(s, i + 1, SecondLo(b), SecondHi(b))
                /\ \A k \in 2..(n - 1) : IsCont(s, i + k, 128, 191)
             THEN n
             ELSE 0

Utf8BadLen(s, i) ==
    LET b == s[i]
        n == Utf8Need(b)
    IN  IF n = 0 THEN 1
        ELSE IF ~IsCont(s, i + 1, SecondLo(b), SecondHi(b)) THEN 1
        ELSE IF n >= 3 /\ ~IsCont(s, i + 2, 128, 191) THEN 2
        ELSE 3

RECURSIVE IsUtf8From(_, _)
IsUtf8From(s, i) ==
    IF i > Len(s) THEN TRUE
    ELSE IF Utf8Len(s, i) = 0 THEN FALSE
    ELSE IsUtf8From(s, i + Utf8Len(s, i))

IsUtf8(s) == IsUtf8From(s, 1)

ReplacementChar == <<239, 191, 189>>

RECURSIVE Utf8LossyFrom(_, _)
Utf8LossyFrom(s, i) ==
    IF i > Len(s) THEN <<>>
    ELSE IF Utf8Len(s, i) > 0
         THEN SubSeq(s, i, i + Utf8Len(s, i) - 1) \o Utf8LossyFrom(s, i + Utf8Len(s, i))
         ELSE ReplacementChar \o Utf8LossyFrom(s, i + Utf8BadLen(s, i))

Utf8Lossy(s) == Utf8LossyFrom(s, 1)

(***************************************************************************)
(* Percent-decoding of a byte sequence, as both percent_encoding (behind   *)
(* query_pairs) and urlencoding::decode do it: "%XX" with two hex digits   *)
(* becomes the byte, any other "%" stays as it is.                         *)
(***************************************************************************)
RECURSIVE PercentDecodeFrom(_, _)
PercentDecodeFrom(s, i) ==
    IF i > Len(s) THEN <<>>
    ELSE IF /\ s[i] = Ord("%")
            /\ i + 2 <= Len(s)
            /\ IsHexDigit(s[i + 1])
            /\ IsHexDigit(s[i + 2])
         THEN <<16 * HexVal(s[i + 1]) + HexVal(s[i + 2])>> \o PercentDecodeFrom(s, i + 3)
         ELSE <<s[i]>> \o PercentDecodeFrom(s, i + 1)

PercentDecode(s) == PercentDecodeFrom(s, 1)

(***************************************************************************)
(* Url::parse (crate url), for the part of a URL the program reads: a      *)
(* scheme is required, http and https need a host, the query runs from the *)
(* first "?" to the first "#", and the parser percent-encodes the bytes of *)
(* the query that are in its query encode set.                             *)
(***************************************************************************)
IsAlpha(b) == b \in Ord("a")..Ord("z") \/ b \in Ord("A")..Ord("Z")

IsSchemeChar(b) ==
    \/ IsAlpha(b)
    \/ b \in Ord("0")..Ord("9")
    \/ b \in {Ord("+"), Ord("-"), Ord(".")}

IsSlash(b) == b \in {Ord("/"), Ord("\\")}

ForbiddenHostBytes ==
    {Ord(" "), Ord("<"), Ord(">"), Ord("["), Ord("]"), Ord("^"), Ord("|")}

InQueryEncodeSet(b) ==
    \/ b <= 32
    \/ b > 126
    \/ b \in {Ord("\""), Ord("#"), Ord("<"), Ord(">"), Ord("'")}

RECURSIVE QueryEncodeFrom(_, _)
QueryEncodeFrom(s, i) ==
    IF i > Len(s) THEN <<>>
    ELSE IF InQueryEncodeSet(s[i])
         THEN <<Ord("%"), HexDigitUpper(s[i] \div 16), HexDigitUpper(s[i] % 16)>>
                  \o QueryEncodeFrom(s, i + 1)
         ELSE <<s[i]>> \o QueryEncodeFrom(s, i + 1)

QueryEncode(s) == QueryEncodeFrom(s, 1)

RECURSIVE SkipSlashes(_, _)
SkipSlashes(s, i) ==
    IF i <= Len(s) /\ IsSlash(s[i]) THEN SkipSlashes(s, i + 1) ELSE i

RECURSIVE HostEnd(_, _)
HostEnd(s, i) ==
    IF i <= Len(s) /\ ~IsSlash(s[i]) THEN HostEnd(s, i + 1) ELSE i

ParseFailure == [ok |-> FALSE, scheme |-> <<>>, hasQuery |-> FALSE, query |-> <<>>]

UrlParse(s) ==
    LET hash   == IndexFrom(s, Ord("#"), 1)
        noFrag == IF hash = 0 THEN s ELSE Take(s, hash - 1)
        qm     == IndexFrom(noFrag, Ord("?"), 1)
        head   == IF qm = 0 THEN noFrag ELSE Take(noFrag, qm - 1)
        colon  == IndexFrom(head, Ord(":"), 1)
        scheme == Take(head, colon - 1)
        hstart == SkipSlashes(head, colon + 1)
        hend   == HostEnd(head, hstart)
        host   == SubSeq(head, hstart, hend - 1)
    IN  IF \/ colon < 2
           \/ ~IsAlpha(head[1])
           \/ \E k \in 2..(colon - 1) : ~IsSchemeChar(head[k])
        THEN ParseFailure                       \* RelativeUrlWithoutBase
        ELSE IF /\ scheme \in {Str(<<"h", "t", "t", "p">>), Str(<<"h", "t", "t", "p", "s">>)}
                /\ \/ host = <<>>                \* EmptyHost
                   \/ \E k \in 1..Len(host) : host[k] \in ForbiddenHostBytes
        THEN ParseFailure
        ELSE [ok       |-> TRUE,
              scheme   |-> scheme,
              hasQuery |-> qm # 0,
              query    |-> IF qm = 0 THEN <<>> ELSE QueryEncode(Drop(noFrag, qm))]

(***************************************************************************)
(* Url::query_pairs (form_urlencoded::parse): the query is cut at "&",     *)
(* empty pieces are skipped, each piece is cut at its first "=", and name  *)
(* and value are decoded: "+" becomes a space, "%XX" a byte, and the bytes *)
(* are read as UTF-8 with replacement.                                     *)
(***************************************************************************)
RECURSIVE Split(_, _)
Split(s, sep) ==
    LET k == IndexFrom(s, sep, 1)
    IN  IF k = 0 THEN <<s>> ELSE <<Take(s, k - 1)>> \o Split(Drop(s, k), sep)

ReplacePlus(s) == [i \in 1..Len(s) |-> IF s[i] = Ord("+") THEN Ord(" ") ELSE s[i]]

FormDecode(s) == Utf8Lossy(PercentDecode(ReplacePlus(s)))

\* a variant of PairsOf that hands the name of each pair over as its value
RECURSIVE PairsOfNames(_, _)
PairsOfNames(pieces, i) ==
    IF i > Len(pieces) THEN <<>>
    ELSE IF pieces[i] = <<>> THEN PairsOfNames(pieces, i + 1)
    ELSE LET eq == IndexFrom(pieces[i], Ord("="), 1)
             k  == IF eq = 0 THEN pieces[i] ELSE Take(pieces[i], eq - 1)
         IN  <<[key |-> FormDecode(k), value |-> FormDecode(k)]>>
                 \o PairsOfNames(pieces, i + 1)

RECURSIVE PairsOf(_, _)
PairsOf(pieces, i) ==
    IF i > Len(pieces) THEN <<>>
    ELSE IF pieces[i] = <<>> THEN PairsOf(pieces, i + 1)
    ELSE LET eq == IndexFrom(pieces[i], Ord("="), 1)
             k  == IF eq = 0 THEN pieces[i] ELSE Take(pieces[i], eq - 1)
             v  == IF eq = 0 THEN <<>> ELSE Drop(pieces[i], eq)
         IN  <<[key |-> FormDecode(k), value |-> FormDecode(v)]>> \o PairsOf(pieces, i + 1)

QueryPairs(parsed) ==
    IF parsed.hasQuery THEN PairsOf(Split(parsed.query, Ord("&")), 1) ELSE <<>>

\* a "%" of s at k that does not start a complete escape %XX
MalformedEscapeAt(s, k) ==
    /\ s[k] = Ord("%")
    /\ ~(k + 2 <= Len(s) /\ IsHexDigit(s[k + 1]) /\ IsHexDigit(s[k + 2]))

HasMalformedEscape(s) == \E k \in 1..Len(s) : MalformedEscapeAt(s, k)

HasCompleteEscape(s) ==
    \E k \in 1..Len(s) : s[k] = Ord("%") /\ ~MalformedEscapeAt(s, k)

\* a variant of Decode that rejects a truncated or invalid escape
DecodeStrict(value) ==
    LET bytes == PercentDecode(value)
    IN  IF IsUtf8(bytes) /\ ~HasMalformedEscape(value) THEN [ok |-> TRUE, value |-> bytes]
        ELSE [ok |-> FALSE, value |-> <<>>]

(***************************************************************************)
(* urlencoding::decode: percent-decodes the bytes ("%XX" with two hex      *)
(* digits becomes the byte, anything else is kept) and fails only when the *)
(* decoded bytes are not UTF-8.                                            *)
(***************************************************************************)
Decode(value) ==
    LET bytes == PercentDecode(value)
    IN  IF IsUtf8(bytes) THEN [ok |-> TRUE, value |-> bytes]
        ELSE [ok |-> FALSE, value |-> <<>>]

(***************************************************************************)
(* The patterns of extract_tags_from_param, in the order of the vector.    *)
(* Each pattern has at most one match at a given start: a negated class    *)
(* followed by the excluded character leaves the greedy repetition no      *)
(* choice.  MatchEnd gives the last position of the match starting at i,   *)
(* or 0.                                                                   *)
(***************************************************************************)
Lit(t) == Str(t)

\* a variant of Patterns with the attribute rules before the tag rules
PatternsAttrFirst ==
    << [kind |-> "attr",   lit |-> Lit(<<"o", "n", "e", "r", "r", "o", "r", "=">>)],
       [kind |-> "attr",   lit |-> Lit(<<"O", "n", "E", "r", "r", "o", "r", "=">>)],
       [kind |-> "attr",   lit |-> Lit(<<"o", "n", "c", "l", "i", "c", "k", "=">>)],
       [kind |-> "attr",   lit |-> Lit(<<"O", "n", "C", "l", "i", "C", "k", "=">>)],
       [kind |-> "attr",   lit |-> Lit(<<"o", "n", "l", "o", "a", "d", "=">>)],
       [kind |-> "attr",   lit |-> Lit(<<"O", "n", "L", "o", "A", "d", "=">>)],
       [kind |-> "attr",   lit |-> Lit(<<"o", "n", "t", "o", "g", "g", "l", "e", "=">>)],
       [kind |-> "attr",   lit |-> Lit(<<"O", "n", "T", "o", "G", "g", "L", "e", "=">>)],
       [kind |-> "attr",   lit |-> Lit(<<"s", "r", "c", "=">>)],
       [kind |-> "paired", lit |-> <<>>],
       [kind |-> "tag",    lit |-> <<>>] >>

Patterns ==
    << [kind |-> "paired", lit |-> <<>>],
       [kind |-> "tag",    lit |-> <<>>],
       [kind |-> "attr",   lit |-> Lit(<<"o", "n", "e", "r", "r", "o", "r", "=">>)],
       [kind |-> "attr",   lit |-> Lit(<<"O", "n", "E", "r", "r", "o", "r", "=">>)],
       [kind |-> "attr",   lit |-> Lit(<<"o", "n", "c", "l", "i", "c", "k", "=">>)],
       [kind |-> "attr",   lit |-> Lit(<<"O", "n", "C", "l", "i", "C", "k", "=">>)],
       [kind |-> "attr",   lit |-> Lit(<<"o", "n", "l", "o", "a", "d", "=">>)],
       [kind |-> "attr",   lit |-> Lit(<<"O", "n", "L", "o", "A", "d", "=">>)],
       [kind |-> "attr",   lit |-> Lit(<<"o", "n", "t", "o", "g", "g", "l", "e", "=">>)],
       [kind |-> "attr",   lit |-> Lit(<<"O", "n", "T", "o", "G", "g", "L", "e", "=">>)],
       [kind |-> "attr",   lit |-> Lit(<<"s", "r", "c", "=">>)] >>

\* \s of the regex crate (Unicode White_Space): the length in bytes of the
\* white-space character starting at i, or 0
WhiteLen(s, i) ==
    LET b  == s[i]
        b2 == IF i + 1 <= Len(s) THEN s[i + 1] ELSE 0
        b3 == IF i + 2 <= Len(s) THEN s[i + 2] ELSE 0
    IN  IF b \in 9..13 \/ b = 32 THEN 1
        ELSE IF b = 194 /\ b2 \in {133, 160} THEN 2
        ELSE IF b = 225 /\ b2 = 154 /\ b3 = 128 THEN 3
        ELSE IF b = 226 /\ b2 = 128 /\ (b3 \in 128..138 \/ b3 \in {168, 169, 175}) THEN 3
        ELSE IF b = 226 /\ b2 = 129 /\ b3 = 159 THEN 3
        ELSE IF b = 227 /\ b2 = 128 /\ b3 = 128 THEN 3
        ELSE 0

\* the end of the longest run of [^>\s] starting at i (i - 1 when it is empty)
RECURSIVE AttrRunEnd(_, _)
AttrRunEnd(s, i) ==
    IF i > Len(s) \/ s[i] = Ord(">") \/ WhiteLen(s, i) > 0 THEN i - 1
    ELSE AttrRunEnd(s, i + 1)

\* <[^>]+>
TagEnd(s, i) ==
    LET j == IndexFrom(s, Ord(">"), i + 1)
    IN  IF i <= Len(s) /\ s[i] = Ord("<") /\ j >= i + 2 THEN j ELSE 0

\* <[^>]+>[^<]*</[^>]+>
PairedEnd(s, i) ==
    LET j == TagEnd(s, i)
        k == IF j = 0 THEN 0 ELSE IndexFrom(s, Ord("<"), j + 1)
        m == IF k = 0 THEN 0 ELSE IndexFrom(s, Ord(">"), k + 2)
    IN  IF /\ k > 0
           /\ k + 1 <= Len(s)
           /\ s[k + 1] = Ord("/")
           /\ m >= k + 3
        THEN m
        ELSE 0

\* lit[^>\s]+
AttrEnd(lit, s, i) ==
    LET e == AttrRunEnd(s, i + Len(lit))
    IN  IF StartsWithAt(s, lit, i) /\ e >= i + Len(lit) THEN e ELSE 0

MatchEnd(pat, s, i) ==
    IF pat.kind = "paired" THEN PairedEnd(s, i)
    ELSE IF pat.kind = "tag" THEN TagEnd(s, i)
    ELSE AttrEnd(pat.lit, s, i)

\* a variant of FindIter that stops after the first match
FindIterFirst(pat, s, i) ==
    LET hits == {k \in i..Len(s) : MatchEnd(pat, s, k) > 0}
    IN  IF hits = {} THEN <<>>
        ELSE LET k == CHOOSE h \in hits : \A g \in hits : h <= g
             IN  <<SubSeq(s, k, MatchEnd(pat, s, k))>>

\* Regex::find_iter: the non-overlapping matches, leftmost first
RECURSIVE FindIter(_, _, _)
FindIter(pat, s, i) ==
    IF i > Len(s) THEN <<>>
    ELSE LET e == MatchEnd(pat, s, i)
         IN  IF e > 0 THEN <<SubSeq(s, i, e)>> \o FindIter(pat, s, e + 1)
             ELSE FindIter(pat, s, i + 1)

RECURSIVE FoundTags(_, _)
FoundTags(param, p) ==
    IF p > Len(Patterns) THEN <<>>
    ELSE FindIter(Patterns[p], param, 1) \o FoundTags(param, p + 1)

\* Option<Vec<String>>: None when nothing was found
extract_tags_from_param(param) ==
    LET found_tags == FoundTags(param, 1)
    IN  [some |-> found_tags # <<>>, tags |-> found_tags]

(***************************************************************************)
(* The (url, text) pairs a task returns.  The three text forms are kept as *)
(* a kind with its arguments.                                              *)
(***************************************************************************)
Reflected(url, tag, status) ==
    [url |-> url, kind |-> "Reflected", tag |-> tag, status |-> status, err |-> ""]

\* a variant of NotReflected whose text leaves the status out
NotReflectedNoStatus(url, status) ==
    [url |-> url, kind |-> "NotReflected", tag |-> <<>>, status |-> 0, err |-> ""]

NotReflected(url, status) ==
    [url |-> url, kind |-> "NotReflected", tag |-> <<>>, status |-> status, err |-> ""]

Failed(url, e) ==
    [url |-> url, kind |-> "Error", tag |-> <<>>, status |-> 0, err |-> e]

\* a variant of FirstReflected that goes on to the last tag the body contains
LastReflected(injected_tags, body, j) ==
    LET hits == {k \in j..Len(injected_tags) : Contains(body, injected_tags[k])}
    IN  IF hits = {} THEN 0 ELSE CHOOSE k \in hits : \A h \in hits : h <= k

\* a variant of FirstReflected that reports the first tag without testing the body
FirstUnchecked(injected_tags, body, j) ==
    IF j > Len(injected_tags) THEN 0 ELSE j

\* the first tag of injected_tags, from position j on, that the body contains (0: none)
RECURSIVE FirstReflected(_, _, _)
FirstReflected(injected_tags, body, j) ==
    IF j > Len(injected_tags) THEN 0
    ELSE IF Contains(body, injected_tags[j]) THEN j
    ELSE FirstReflected(injected_tags, body, j + 1)

\* the loop over query_params of check_xss_reflection, from parameter i on
RECURSIVE ScanParams(_, _, _, _, _)
ScanParams(url, query_params, i, status, body) ==
    IF i > Len(query_params) THEN [ok |-> TRUE, result |-> NotReflected(url, status)]
    ELSE LET decoded_value == Decode(query_params[i].value)
             injected      == extract_tags_from_param(decoded_value.value)
             hit           == FirstReflected(injected.tags, body, 1)
         IN  IF ~decoded_value.ok
             THEN [ok |-> FALSE, result |-> Failed(<<>>, "Decoding")]
             ELSE IF injected.some /\ hit > 0
             THEN [ok |-> TRUE, result |-> Reflected(url, injected.tags[hit], status)]
             ELSE ScanParams(url, query_params, i + 1, status, body)

\* the steps the loop over query_params takes, from parameter i on, in the order
\* in which it takes them: each parameter is decoded, then searched for tags
\* (Extracting), then its tags are looked up in the body (Checking, when there
\* are tags), before the next parameter is decoded
RECURSIVE ScanSteps(_, _, _)
ScanSteps(query_params, i, body) ==
    IF i > Len(query_params) THEN <<"NotReflected">>
    ELSE LET decoded_value == Decode(query_params[i].value)
             injected      == extract_tags_from_param(decoded_value.value)
             hit           == FirstReflected(injected.tags, body, 1)
         IN  IF ~decoded_value.ok
             THEN <<"Decoding", "DecodeFailed">>
             ELSE <<"Decoding", "Decoded", "Extracting">>
                      \o (IF injected.some THEN <<"Checking">> ELSE <<>>)
                      \o (IF injected.some /\ hit > 0
                          THEN <<"Reflected">>
                          ELSE ScanSteps(query_params, i + 1, body))

\* the steps of check_xss_reflection after the body has been read
ResponseSteps(url, body) ==
    LET parsed_url == UrlParse(url)
    IN  IF ~parsed_url.ok
        THEN <<"ParseFailed">>
        ELSE ScanSteps(QueryPairs(parsed_url), 1, body)

\* check_xss_reflection from Url::parse on, the response being (status, body)
CheckResponse(url, status, body) ==
    LET parsed_url == UrlParse(url)
    IN  IF ~parsed_url.ok
        THEN [ok |-> FALSE, result |-> Failed(<<>>, "UrlParse")]
        ELSE ScanParams(url, QueryPairs(parsed_url), 1, status, body)

\* a variant of TaskResult that keeps the pair of the error as it is, without the URL
TaskResultUrlLost(url, r) == r.result

\* the closure of tokio::spawn: Ok(result) => result, Err(e) => (url, "Error: ...")
TaskResult(url, r) ==
    IF r.ok THEN r.result ELSE Failed(url, r.result.err)

\* client.get(url) keeps the error of a URL that does not parse, or whose scheme
\* is not http(s), and send() returns it without a request being made
RequestBuilds(url) ==
    LET parsed == UrlParse(url)
    IN  /\ parsed.ok
        /\ parsed.scheme \in {Str(<<"h", "t", "t", "p">>), Str(<<"h", "t", "t", "p", "s">>)}

(***************************************************************************)
(* The custom headers of a request (check_xss_reflection, the header loop) *)
(***************************************************************************)

\* str::trim_start: the text without its leading whitespace
RECURSIVE TrimStart(_)
TrimStart(s) ==
    IF s = <<>> THEN s
    ELSE IF WhiteLen(s, 1) > 0 THEN TrimStart(Drop(s, WhiteLen(s, 1)))
    ELSE s

\* the length of the whitespace character that ends s, 0 when there is none
WhiteTail(s) ==
    IF \E w \in 1..3 : w <= Len(s) /\ WhiteLen(s, Len(s) - w + 1) = w
    THEN CHOOSE w \in 1..3 : w <= Len(s) /\ WhiteLen(s, Len(s) - w + 1) = w
    ELSE 0

RECURSIVE TrimEnd(_)
TrimEnd(s) ==
    IF WhiteTail(s) = 0 THEN s ELSE TrimEnd(Take(s, Len(s) - WhiteTail(s)))

Trim(s) == TrimEnd(TrimStart(s))

\* a variant of SplitHeader that cuts at the last colon
SplitHeaderLast(header) ==
    LET cuts == {k \in 1..Len(header) : header[k] = Ord(":")}
    IN  IF cuts = {} THEN <<header>>
        ELSE LET k == CHOOSE c \in cuts : \A d \in cuts : d <= c
             IN  <<Take(header, k - 1), Drop(header, k)>>

\* header.splitn(2, ':').collect(): at most two parts, cut at the first colon
SplitHeader(header) ==
    LET k == IndexFrom(header, Ord(":"), 1)
    IN  IF k = 0 THEN <<header>> ELSE <<Take(header, k - 1), Drop(header, k)>>

IsTokenByte(b) ==
    \/ b \in 48..57
    \/ b \in 65..90
    \/ b \in 97..122
    \/ b \in {Ord("!"), Ord("#"), Ord("$"), Ord("%"), Ord("&"), Ord("'"), Ord("*"),
              Ord("+"), Ord("-"), Ord("."), Ord("^"), Ord("_"), 96, Ord("|"), Ord("~")}

\* HeaderName::try_from(&str): a non-empty token; the name is kept in lower case
ValidHeaderName(name) == name # <<>> /\ \A k \in 1..Len(name) : IsTokenByte(name[k])

ToLower(s) == [k \in 1..Len(s) |-> IF s[k] \in 65..90 THEN s[k] + 32 ELSE s[k]]

\* HeaderValue::try_from(&str): visible ASCII, space and tab only
ValidHeaderValue(value) ==
    \A k \in 1..Len(value) : value[k] = 9 \/ (value[k] >= 32 /\ value[k] < 127)

\* the loop over custom_headers: every header string of two parts is attached,
\* in order; a name or a value the client rejects puts the builder in error
RECURSIVE AttachHeaders(_, _, _)
AttachHeaders(custom_headers, k, request) ==
    IF k > Len(custom_headers) THEN request
    ELSE LET parts == SplitHeader(custom_headers[k])
         IN  IF Len(parts) = 2
             THEN LET name  == Trim(parts[1])
                      value == Trim(parts[2])
                  IN  IF request.ok /\ ValidHeaderName(name) /\ ValidHeaderValue(value)
                      THEN AttachHeaders(custom_headers, k + 1,
                               [request EXCEPT !.headers =
                                   Append(@, [name |-> ToLower(name), value |-> value])])
                      ELSE AttachHeaders(custom_headers, k + 1,
                               [request EXCEPT !.ok = FALSE])
             ELSE AttachHeaders(custom_headers, k + 1, request)

\* client.get(url) followed by the header loop
BuildRequest(url, custom_headers) ==
    AttachHeaders(custom_headers, 1, [ok |-> RequestBuilds(url), headers |-> <<>>])


(***************************************************************************)
(* The inputs of the model: the URLs a batch is drawn from, and the        *)
(* servers that answer.                                                    *)
(***************************************************************************)
\* http://h/p
Base ==
    Str(<<"h", "t", "t", "p", ":", "/", "/", "h", "/", "p">>)

\* http://h/p?x=%3Cimg%20src%3Dx%20onerror%3Dalert(1)%3E
UrlImg ==
    Base \o
    Str(<<"?", "x", "=", "%", "3", "C", "i", "m", "g", "%", "2", "0", "s", "r", "c",
          "%", "3", "D", "x", "%", "2", "0", "o", "n", "e", "r", "r", "o", "r", "%",
          "3", "D", "a", "l", "e", "r", "t", "(", "1", ")", "%", "3", "E">>)

\* http://h/p?x=%3Cscript%3Ealert(1)%3C/script%3E
UrlScript ==
    Base \o
    Str(<<"?", "x", "=", "%", "3", "C", "s", "c", "r", "i", "p", "t", "%", "3", "E",
          "a", "l", "e", "r", "t", "(", "1", ")", "%", "3", "C", "/", "s", "c", "r",
          "i", "p", "t", "%", "3", "E">>)

\* http://h/p?q=abc
UrlPlain ==
    Base \o
    Str(<<"?", "q", "=", "a", "b", "c">>)

\* http://h/p?a=%&b=%4&c=%zz
UrlBadEscapes ==
    Base \o
    Str(<<"?", "a", "=", "%", "&", "b", "=", "%", "4", "&", "c", "=", "%", "z", "z">>)

\* http://h/p?a=%zz<b>
UrlBadEscapeTag ==
    Base \o
    Str(<<"?", "a", "=", "%", "z", "z", "<", "b", ">">>)

\* http://h/p?x=%25FF
UrlBadUtf8 ==
    Base \o
    Str(<<"?", "x", "=", "%", "2", "5", "F", "F">>)

\* http://h/p?x=%253Cb%253E
UrlDoubleTag ==
    Base \o
    Str(<<"?", "x", "=", "%", "2", "5", "3", "C", "b", "%", "2", "5", "3", "E">>)

\* http://h/p?a=%3Cb%3E&x=%25FF
UrlTagThenBadUtf8 ==
    Base \o
    Str(<<"?", "a", "=", "%", "3", "C", "b", "%", "3", "E", "&", "x", "=", "%", "2", "5", "F", "F">>)

\* http://h/p?x=%25FF&a=%3Cb%3E
UrlBadUtf8ThenTag ==
    Base \o
    Str(<<"?", "x", "=", "%", "2", "5", "F", "F", "&", "a", "=", "%", "3", "C", "b", "%", "3", "E">>)

\* http://h/p?%3Cb%3E=1
UrlTagInKey ==
    Base \o
    Str(<<"?", "%", "3", "C", "b", "%", "3", "E", "=", "1">>)

\* http://h/<b>?q=a#<i>
UrlTagInPath ==
    Str(<<"h", "t", "t", "p", ":", "/", "/", "h", "/", "<", "b", ">", "?", "q", "=", "a", "#", "<", "i", ">">>)

\* http://h/p?x=%3Cb%3E%3Cb%3E
UrlRepeatedTag ==
    Base \o
    Str(<<"?", "x", "=", "%", "3", "C", "b", "%", "3", "E", "%", "3", "C", "b", "%", "3", "E">>)

\* http://h/p?a=%3Ci%3E&b=%3Cb%3E
UrlTwoParams ==
    Base \o
    Str(<<"?", "a", "=", "%", "3", "C", "i", "%", "3", "E", "&", "b", "=", "%", "3",
          "C", "b", "%", "3", "E">>)

\* h/p?x=%3Cb%3E: no scheme
UrlMalformed ==
    Str(<<"h", "/", "p", "?", "x", "=", "%", "3", "C", "b", "%", "3", "E">>)

UrlNoQuery == Base

\* <script>alert(1)</script>
ScriptTag ==
    Str(<<"<", "s", "c", "r", "i", "p", "t", ">", "a", "l", "e", "r", "t", "(", "1",
          ")", "<", "/", "s", "c", "r", "i", "p", "t", ">">>)

\* <img src=x onerror=alert(1)>
ImgTag ==
    Str(<<"<", "i", "m", "g", " ", "s", "r", "c", "=", "x", " ", "o", "n", "e", "r",
          "r", "o", "r", "=", "a", "l", "e", "r", "t", "(", "1", ")", ">">>)

\* <html><p onerror=alert(1) src=x </p><b>x</b></html>
StaticPage ==
    Str(<<"<", "h", "t", "m", "l", ">", "<", "p", " ", "o", "n", "e", "r", "r", "o",
          "r", "=", "a", "l", "e", "r", "t", "(", "1", ")", " ", "s", "r", "c", "=",
          "x", " ", "<", "/", "p", ">", "<", "b", ">", "x", "<", "/", "b", ">", "<",
          "/", "h", "t", "m", "l", ">">>)

Fragments ==
    { Str(<<"<", "s", "c", "r", "i", "p", "t", ">">>),
      Str(<<"a", "l", "e", "r", "t", "(", "1", ")">>),
      Str(<<"<", "/", "s", "c", "r", "i", "p", "t", ">">>),
      Str(<<"<", "b", ">">>),
      Str(<<"<", "i", ">">>) }

\* urlencoding::encode: unreserved bytes stay, every other byte becomes %XX
IsUnreserved(b) ==
    \/ IsAlpha(b)
    \/ b \in Ord("0")..Ord("9")
    \/ b \in {Ord("-"), Ord("_"), Ord("."), Ord("~")}

RECURSIVE EncodeFrom(_, _)
EncodeFrom(s, i) ==
    IF i > Len(s) THEN <<>>
    ELSE IF IsUnreserved(s[i]) THEN <<s[i]>> \o EncodeFrom(s, i + 1)
    ELSE <<Ord("%"), HexDigitUpper(s[i] \div 16), HexDigitUpper(s[i] % 16)>>
             \o EncodeFrom(s, i + 1)

Encode(s) == EncodeFrom(s, 1)

\* reserved and unreserved characters the round-trip values are built from
MaxValueLen == 2

ValueAlphabet == {Ord("a"), Ord("&"), Ord("="), Ord("+")}

RECURSIVE SeqsUpTo(_, _)
SeqsUpTo(S, n) ==
    IF n = 0 THEN {<<>>}
    ELSE LET shorter == SeqsUpTo(S, n - 1)
         IN  shorter \cup {Append(t, x) : t \in shorter, x \in S}

RoundTripValues == SeqsUpTo(ValueAlphabet, MaxValueLen) \ {<<>>}

\* http://h/p?v=<encoded value>
EncodedUrl(v) == Base \o Str(<<"?", "v", "=">>) \o Encode(v)

PipelineUrls ==
    {UrlImg, UrlScript, UrlPlain, UrlNoQuery, UrlMalformed, UrlBadEscapes,
     UrlBadEscapeTag, UrlBadUtf8, UrlDoubleTag, UrlTwoParams, UrlTagThenBadUtf8,
     UrlBadUtf8ThenTag, UrlTagInKey, UrlTagInPath, UrlRepeatedTag}
        \cup {EncodedUrl(v) : v \in RoundTripValues}

DispatchUrls == {UrlScript, UrlNoQuery, UrlMalformed, UrlBadUtf8}

\* the bodies a server of each kind may answer a request for url with
MaxBodyParts == 2

RECURSIVE Concat(_)
Concat(parts) == IF parts = <<>> THEN <<>> ELSE Head(parts) \o Concat(Tail(parts))

FragmentBodies == {Concat(parts) : parts \in SeqsUpTo(Fragments, MaxBodyParts)}

Servers == {"empty", "static", "echo_raw", "echo_decoded", "fragments"}

DispatchServers == {"echo_decoded"}

Bodies(kind, url) ==
    IF kind = "empty" THEN {<<>>}
    ELSE IF kind = "static" THEN {StaticPage}
    ELSE IF kind = "echo_raw" THEN {UrlParse(url).query}
    ELSE IF kind = "echo_decoded" THEN {FormDecode(UrlParse(url).query)}
    ELSE FragmentBodies

\* header strings as given with -H: a plain one, one without a colon, one with
\* padding and a second colon, and one whose name is empty
HXTest == Str(<<"X", "-", "T", "e", "s", "t", ":", " ", "1">>)

HNoColon == Str(<<"N", "o", "C", "o", "l", "o", "n">>)

HTwoColons == Str(<<" ", "A", " ", ":", " ", "b", ":", "c", " ">>)

HBadName == Str(<<":", " ", "v">>)

HeaderStrings == {HXTest, HNoColon, HTwoColons, HBadName}

HeaderLists == SeqsUpTo(HeaderStrings, MaxHeaders)

\* the header list of the batches that are not about headers
PlainHeaders == <<HXTest, HNoColon>>

HeaderUrls == {UrlNoQuery, UrlMalformed}

FairUrls == {UrlScript, UrlMalformed}

Statuses == {200, 404}

AllUrls == PipelineUrls \cup DispatchUrls \cup HeaderUrls \cup FairUrls

AllHeaderLists == HeaderLists \cup {PlainHeaders}

\* The request built for each URL and header list, the bodies of each server
\* and the value check_xss_reflection returns for each response, computed
\* once for the inputs of the model.
RequestTable == [u \in AllUrls |-> [h \in AllHeaderLists |-> BuildRequest(u, h)]]

BodiesTable == [k \in Servers |-> [u \in AllUrls |-> Bodies(k, u)]]

CheckTable ==
    [u \in AllUrls |->
        [st \in Statuses |->
            [b \in UNION {Bodies(k, u) : k \in Servers} |-> CheckResponse(u, st, b)]]]

StepsTable ==
    [u \in AllUrls |->
        [b \in UNION {Bodies(k, u) : k \in Servers} |-> ResponseSteps(u, b)]]

(***************************************************************************)
(* main.  urls is the vector read from the input, threads is args.threads. *)
(* task[i] is the task spawned for urls[i]: its position (idle: not yet    *)
(* spawned, sending: in request.send().await, reading: in                  *)
(* resp.text().await, done: returned), its locals status and body, and the *)
(* pair it returned.  inflight holds the JoinHandles that are in the queue *)
(* of buffer_unordered; next is the position of stream::iter.              *)
(* No task panics and none is aborted, so every JoinHandle yields Ok and   *)
(* results holds the pairs themselves.                                     *)
(***************************************************************************)
NoResult == [url |-> <<>>, kind |-> "", tag |-> <<>>, status |-> 0, err |-> ""]

NoRequest == [ok |-> FALSE, headers |-> <<>>]

IdleTask == [pc |-> "idle", request |-> NoRequest, status |-> 0, body |-> <<>>,
             result |-> NoResult]

InitWith(urlSet, headerSet, serverSet, maxUrls, maxThreads) ==
    /\ urls \in SeqsUpTo(urlSet, maxUrls)
    /\ headers \in headerSet
    /\ threads \in 1..maxThreads
    /\ server \in serverSet
    /\ mainpc = "start"
    /\ next = 1
    /\ task = [i \in 1..Len(urls) |-> IdleTask]
    /\ inflight = {}
    /\ results = <<>>
    /\ printed = <<>>

Init == InitWith(DispatchUrls, {PlainHeaders}, DispatchServers, MaxUrls, MaxThreads)

\* one URL at a time (no concurrency), over every URL and server of the model
InitPipeline == InitWith(PipelineUrls, {PlainHeaders}, Servers, 1, 1)

\* batches over every header list of the model, the runs one after another
InitHeaders == InitWith(HeaderUrls, HeaderLists, DispatchServers, MaxUrls, 1)

\* lines 58-65: an empty list ends the run before the client is built
Start ==
    /\ mainpc = "start"
    /\ mainpc' = IF urls = <<>> THEN "done" ELSE "dispatch"
    /\ UNCHANGED <<urls, headers, threads, server, next, task, inflight, results, printed>>

\* buffer_unordered pulls the next URL from the stream while its queue holds
\* fewer than threads futures; the map closure spawns the task
\* a variant of CanAdmit without the limit (buffer_unordered left out)
CanAdmitUnbounded == next <= Len(urls)

\* a variant of CanAdmit that waits until no run is in flight (batches of runs)
CanAdmitWhenIdle == inflight = {} /\ next <= Len(urls)

CanAdmit == Cardinality(inflight) < threads /\ next <= Len(urls)

\* a variant of Admit that spawns the run of any URL of the list
AdmitAnyOrder ==
    /\ mainpc = "dispatch"
    /\ CanAdmit
    /\ \E j \in 1..Len(urls) :
          /\ task' = [task EXCEPT ![j].pc = "sending",
                                   ![j].request = RequestTable[urls[j]][headers]]
          /\ inflight' = inflight \cup {j}
    /\ next' = next + 1
    /\ UNCHANGED <<urls, headers, threads, server, mainpc, results, printed>>

Admit ==
    /\ mainpc = "dispatch"
    /\ CanAdmit
    /\ task' = [task EXCEPT ![next].pc = "sending",
                             ![next].request = RequestTable[urls[next]][headers]]
    /\ inflight' = inflight \cup {next}
    /\ next' = next + 1
    /\ UNCHANGED <<urls, headers, threads, server, mainpc, results, printed>>

\* request.send().await? returns a response with its status
SendOk(i, st) ==
    /\ task[i].pc = "sending"
    /\ task[i].request.ok
    /\ task' = [task EXCEPT ![i].pc = "reading", ![i].status = st]
    /\ UNCHANGED <<urls, headers, threads, server, mainpc, next, inflight, results, printed>>

\* a variant of SendErr in which the error leaves main (a "?" on the task's result)
SendErrAborts(i) ==
    /\ task[i].pc = "sending"
    /\ task' = [task EXCEPT
                  ![i].pc = "done",
                  ![i].result = Failed(urls[i], "HttpRequest")]
    /\ mainpc' = "done"
    /\ UNCHANGED <<urls, headers, threads, server, next, inflight, results, printed>>

\* request.send().await? returns an error (builder, connect, TLS, timeout)
SendErr(i) ==
    /\ task[i].pc = "sending"
    /\ task' = [task EXCEPT
                  ![i].pc = "done",
                  ![i].result = TaskResult(urls[i],
                                    [ok |-> FALSE, result |-> Failed(<<>>, "HttpRequest")])]
    /\ UNCHANGED <<urls, headers, threads, server, mainpc, next, inflight, results, printed>>

\* a variant of ReadOk in which the runs share one status cell: the status
\* reported is that of the run that received its status last
ReadOkSharedStatus(i) ==
    /\ task[i].pc = "reading"
    /\ \E b \in BodiesTable[server][urls[i]] :
          LET last == CHOOSE j \in 1..Len(urls) :
                          /\ task[j].status # 0
                          /\ \A k \in 1..Len(urls) : task[k].status # 0 => k <= j
          IN  task' = [task EXCEPT
                         ![i].pc = "done",
                         ![i].body = b,
                         ![i].result =
                             TaskResult(urls[i], CheckTable[urls[i]][task[last].status][b])]
    /\ UNCHANGED <<urls, headers, threads, server, mainpc, next, inflight, results, printed>>

\* resp.text().await? returns the body; the rest of the function runs to its end
ReadOk(i) ==
    /\ task[i].pc = "reading"
    /\ \E b \in BodiesTable[server][urls[i]] :
          task' = [task EXCEPT
                     ![i].pc = "done",
                     ![i].body = b,
                     ![i].result =
                         TaskResult(urls[i], CheckTable[urls[i]][task[i].status][b])]
    /\ UNCHANGED <<urls, headers, threads, server, mainpc, next, inflight, results, printed>>

\* resp.text().await? returns an error
ReadErr(i) ==
    /\ task[i].pc = "reading"
    /\ task' = [task EXCEPT
                  ![i].pc = "done",
                  ![i].result = TaskResult(urls[i],
                                    [ok |-> FALSE, result |-> Failed(<<>>, "HttpRequest")])]
    /\ UNCHANGED <<urls, headers, threads, server, mainpc, next, inflight, results, printed>>

\* a variant of Collect that prints each pair as it arrives
CollectAndPrint(i) ==
    /\ mainpc = "dispatch"
    /\ ~CanAdmit
    /\ i \in inflight
    /\ task[i].pc = "done"
    /\ results' = Append(results, task[i].result)
    /\ printed' = Append(printed, task[i].result)
    /\ inflight' = inflight \ {i}
    /\ UNCHANGED <<urls, headers, threads, server, mainpc, next, task>>

\* buffer_unordered yields a finished future once its queue is full or the
\* stream is exhausted; collect pushes the value
Collect(i) ==
    /\ mainpc = "dispatch"
    /\ ~CanAdmit
    /\ i \in inflight
    /\ task[i].pc = "done"
    /\ results' = Append(results, task[i].result)
    /\ inflight' = inflight \ {i}
    /\ UNCHANGED <<urls, headers, threads, server, mainpc, next, task, printed>>

\* a variant of Finish that does not wait for the runs in flight
FinishEarly ==
    /\ mainpc = "dispatch"
    /\ next > Len(urls)
    /\ mainpc' = "print"
    /\ UNCHANGED <<urls, headers, threads, server, next, task, inflight, results, printed>>

\* the stream is done and the queue is empty: collect returns
Finish ==
    /\ mainpc = "dispatch"
    /\ next > Len(urls)
    /\ inflight = {}
    /\ mainpc' = "print"
    /\ UNCHANGED <<urls, headers, threads, server, next, task, inflight, results, printed>>

\* one turn of the loop over results: println!("{} -> {}", url, status)
PrintLine ==
    /\ mainpc = "print"
    /\ Len(printed) < Len(results)
    /\ printed' = Append(printed, results[Len(printed) + 1])
    /\ UNCHANGED <<urls, headers, threads, server, mainpc, next, task, inflight, results>>

Return ==
    /\ mainpc = "print"
    /\ Len(printed) = Len(results)
    /\ mainpc' = "done"
    /\ UNCHANGED <<urls, headers, threads, server, next, task, inflight, results, printed>>

Next ==
    \/ Start
    \/ Admit
    \/ \E i \in 1..Len(urls) : \E st \in Statuses : SendOk(i, st)
    \/ \E i \in 1..Len(urls) : SendErr(i)
    \/ \E i \in 1..Len(urls) : ReadOk(i)
    \/ \E i \in 1..Len(urls) : ReadErr(i)
    \/ \E i \in 1..Len(urls) : Collect(i)
    \/ Finish
    \/ PrintLine
    \/ Return

Spec == Init /\ [][Next]_vars

SpecPipeline == InitPipeline /\ [][Next]_vars

SpecHeaders == InitHeaders /\ [][Next]_vars

(***************************************************************************)
(* Scheduling.  main is one sequential future that the runtime drives      *)
(* whenever it can go on; a spawned task is driven by the runtime's        *)
(* workers, and goes on when its request is answered or fails.             *)
(***************************************************************************)
\* a step of main: the dispatcher, the print loop and the return
MainStep ==
    \/ Start
    \/ Admit
    \/ \E i \in 1..Len(urls) : Collect(i)
    \/ Finish
    \/ PrintLine
    \/ Return

\* a step of the task spawned for urls[i]
TaskStep(i) ==
    /\ i \in 1..Len(urls)
    /\ \/ \E st \in Statuses : SendOk(i, st)
       \/ SendErr(i)
       \/ ReadOk(i)
       \/ ReadErr(i)

InitFair == InitWith(FairUrls, {PlainHeaders}, DispatchServers, MaxUrls, MaxThreads)

\* main goes on, and every request is answered or fails
SpecFair ==
    /\ InitFair
    /\ [][Next]_vars
    /\ WF_vars(MainStep)
    /\ \A i \in 1..MaxUrls : WF_vars(TaskStep(i))

\* main goes on; nothing is assumed of the requests
SpecMainFair ==
    /\ InitFair
    /\ [][Next]_vars
    /\ WF_vars(MainStep)

(***************************************************************************)
(* Notions the properties are stated with.                                 *)
(***************************************************************************)
N == Len(urls)

IsDone(i) == task[i].pc = "done"

\* the run of urls[i] has been spawned and has not returned
Running(i) == task[i].pc \in {"sending", "reading"}

\* the run of urls[i] returned after it had received status and body
Fetched(i) == IsDone(i) /\ task[i].result.err # "HttpRequest"

AllRunsDone == \A i \in 1..N : IsDone(i)

\* seq is a rearrangement of the pairs the tasks returned, each with the URL of its task
OnePerUrl(seq) ==
    /\ Len(seq) = N
    /\ \E p \in Permutations(1..N) :
          \A k \in 1..N : seq[k] = task[p[k]].result /\ seq[k].url = urls[p[k]]

\* the guards of the actions: main or some task can take a step
SomeStepPossible ==
    \/ mainpc \in {"start", "print"}
    \/ /\ mainpc = "dispatch"
       /\ \/ CanAdmit
          \/ \E i \in 1..N : Running(i)
          \/ \E i \in inflight : IsDone(i) /\ ~CanAdmit
          \/ next > N /\ inflight = {}

(***************************************************************************)
(* C1: when collect has returned, the result vector holds exactly one pair *)
(* per input URL (N pairs, duplicates of a URL counted), each the pair its *)
(* task returned and each carrying the URL text of that task, also when    *)
(* the task ended in an error; and while the dispatcher runs the vector    *)
(* never holds more pairs than tasks have returned.                        *)
(***************************************************************************)
C1_OneOutcomePerUrl ==
    /\ Len(results) <= Cardinality({i \in 1..N : IsDone(i)})
    /\ \A k \in 1..Len(results) : \E i \in 1..N : results[k].url = urls[i]
    /\ mainpc \in {"print", "done"} => OnePerUrl(results)

\* two different URLs, the second one collected first, the first one failed
C1_Witness ==
    /\ mainpc = "done"
    /\ N = 2
    /\ urls[1] # urls[2]
    /\ results[1].url = urls[2]
    /\ results[2].kind = "Error"
    /\ results[2].url = urls[1]

(***************************************************************************)
(* C2: at most threads runs are spawned and not yet returned.              *)
(***************************************************************************)
C2_AtMostKRunning == Cardinality({i \in 1..N : Running(i)}) <= threads

\* the limit holds a URL back: threads runs are under way and a URL waits
C2_Witness ==
    /\ Cardinality({i \in 1..N : Running(i)}) = threads
    /\ next <= N

(***************************************************************************)
(* C3: a run that failed gives an Error pair for its own URL and nothing   *)
(* else.  In every state with a failed run: the pair carries the URL of    *)
(* that run, a step of main or of a run stays possible until main has      *)
(* ended, and main ends only with every URL run and printed.  And the step *)
(* in which a run fails changes nothing but that run: not the position of  *)
(* main, not the admission state, not the results, not any other run; and  *)
(* no step changes the pair of a run that has returned.                    *)
(***************************************************************************)
FailedRun(i) == IsDone(i) /\ task[i].result.kind = "Error"

C3_StateAfterFailure ==
    \A i \in 1..N :
        FailedRun(i) =>
            /\ task[i].result.url = urls[i]
            /\ mainpc # "done" => SomeStepPossible
            /\ mainpc = "done" => AllRunsDone /\ OnePerUrl(printed)

C3_FailingStep ==
    /\ \A i \in 1..N :
          (~IsDone(i) /\ task'[i].pc = "done" /\ task'[i].result.kind = "Error") =>
              /\ \A j \in 1..N \ {i} : task'[j] = task[j]
              /\ <<mainpc, next, inflight, results, printed>>' =
                     <<mainpc, next, inflight, results, printed>>
    /\ \A j \in 1..N : IsDone(j) => task'[j] = task[j]

C3_FailureIsLocal == [](C3_StateAfterFailure) /\ [][C3_FailingStep]_vars

\* one slot: the first URL failed, the second was admitted after it and was scanned
C3_Witness ==
    /\ mainpc = "done"
    /\ threads = 1
    /\ N = 2
    /\ task[1].result.kind = "Error"
    /\ task[2].result.kind = "Reflected"
    /\ Len(printed) = 2

(***************************************************************************)
(* C7: no line is printed while a run of the batch has not returned, and   *)
(* when main ends after a scan the printed lines are the pairs of the      *)
(* runs, one line per input URL.                                           *)
(***************************************************************************)
C7_PrintedAfterBatch ==
    /\ printed # <<>> => AllRunsDone /\ inflight = {} /\ OnePerUrl(results)
    /\ \A k \in 1..Len(printed) : printed[k] = results[k]
    /\ mainpc = "done" => OnePerUrl(printed)

\* the first of two lines has been printed
C7_Witness ==
    /\ mainpc = "print"
    /\ N = 2
    /\ Len(printed) = 1

(***************************************************************************)
(* Notions of the per-URL properties.                                      *)
(***************************************************************************)
\* the decoded values of url, in URL order, as lines 108-115 compute them
DecodedValuesOf(url) ==
    LET q == QueryPairs(UrlParse(url))
    IN  [k \in 1..Len(q) |-> Decode(q[k].value)]

DecodedTable == [u \in PipelineUrls |-> DecodedValuesOf(u)]

DecodedValues(url) == DecodedTable[url]

AllDecode(url) == \A k \in 1..Len(DecodedValues(url)) : DecodedValues(url)[k].ok

\* the Candidate Tags of url in production order: parameters in URL order,
\* then pattern order, then match order
RECURSIVE CandidatesFrom(_, _)
CandidatesFrom(values, k) ==
    IF k > Len(values) THEN <<>>
    ELSE extract_tags_from_param(values[k].value).tags \o CandidatesFrom(values, k + 1)

CandidateTable == [u \in PipelineUrls |-> CandidatesFrom(DecodedValues(u), 1)]

AllCandidates(url) == CandidateTable[url]

MinOf(S) == CHOOSE j \in S : \A k \in S : j <= k

\* the text of url has no "?" before its fragment
NoQueryString(url) ==
    LET hash == IndexFrom(url, Ord("#"), 1)
        qm   == IndexFrom(url, Ord("?"), 1)
    IN  qm = 0 \/ (hash # 0 /\ hash < qm)

\* the values of the query as the request carries them, not decoded
RECURSIVE RawValuesOf(_, _)
RawValuesOf(pieces, i) ==
    IF i > Len(pieces) THEN <<>>
    ELSE IF pieces[i] = <<>> THEN RawValuesOf(pieces, i + 1)
    ELSE LET eq == IndexFrom(pieces[i], Ord("="), 1)
         IN  <<IF eq = 0 THEN <<>> ELSE Drop(pieces[i], eq)>> \o RawValuesOf(pieces, i + 1)

RawValuesTable ==
    [u \in PipelineUrls |->
        LET parsed == UrlParse(u)
        IN  IF parsed.ok /\ parsed.hasQuery
            THEN RawValuesOf(Split(parsed.query, Ord("&")), 1)
            ELSE <<>>]

RawValues(url) == RawValuesTable[url]

OpenScript == Str(<<"<", "s", "c", "r", "i", "p", "t", ">">>)

CloseScript == Str(<<"<", "/", "s", "c", "r", "i", "p", "t", ">">>)

AlertCall == Str(<<"a", "l", "e", "r", "t", "(", "1", ")">>)

BoldTag == Str(<<"<", "b", ">">>)

ItalicTag == Str(<<"<", "i", ">">>)

OnerrorAttr ==
    Str(<<"o", "n", "e", "r", "r", "o", "r", "=", "a", "l", "e", "r", "t", "(", "1", ")">>)

(***************************************************************************)
(* C4: for a run that received a response and whose values all decode,    *)
(* the pair is Reflected with the first Candidate Tag, in production       *)
(* order, that is a substring of the body, and the received status; it is  *)
(* NotReflected with the status when no candidate is a substring.  The URL *)
(* whose value decodes to <script>alert(1)</script> gets that very tag     *)
(* when the body contains it.                                              *)
(***************************************************************************)
C4_FirstCandidateWins ==
    \A i \in 1..N :
        (Fetched(i) /\ AllDecode(urls[i])) =>
            LET c    == AllCandidates(urls[i])
                hits == {j \in 1..Len(c) : Contains(task[i].body, c[j])}
                r    == task[i].result
            IN  /\ r.url = urls[i]
                /\ r.status = task[i].status
                /\ r.kind = IF hits = {} THEN "NotReflected" ELSE "Reflected"
                /\ hits # {} => r.tag = c[MinOf(hits)]
                /\ (urls[i] = UrlScript /\ Contains(task[i].body, ScriptTag)) =>
                       /\ DecodedValues(urls[i]) = <<[ok |-> TRUE, value |-> ScriptTag]>>
                       /\ r.kind = "Reflected"
                       /\ r.tag = ScriptTag

\* two parameters, the body holds the tag of the second before the tag of the first
C4_Witness ==
    \E i \in 1..N :
        /\ Fetched(i)
        /\ urls[i] = UrlTwoParams
        /\ task[i].body = BoldTag \o ItalicTag
        /\ task[i].result.kind = "Reflected"
        /\ task[i].result.tag = ItalicTag

(***************************************************************************)
(* C5 as stated: for the URL whose only decoded value is                   *)
(* <script>alert(1)</script>, a body that does not contain that text gives *)
(* NotReflected.                                                           *)
(***************************************************************************)
C5_Original ==
    \A i \in 1..N :
        (Fetched(i) /\ urls[i] = UrlScript /\ ~Contains(task[i].body, ScriptTag)) =>
            task[i].result.kind = "NotReflected"

(***************************************************************************)
(* C5 amended: for that URL a body that contains neither <script> nor      *)
(* </script> gives NotReflected; a body without the full text that         *)
(* contains <script> gives Reflected with the tag <script>, and one that   *)
(* contains only </script> gives Reflected with the tag </script>.         *)
(***************************************************************************)
C5_NoScriptTagNoReflection ==
    \A i \in 1..N :
        (Fetched(i) /\ urls[i] = UrlScript) =>
            LET body == task[i].body
                r    == task[i].result
            IN  /\ (~Contains(body, OpenScript) /\ ~Contains(body, CloseScript)) =>
                       r.kind = "NotReflected" /\ r.status = task[i].status
                /\ (~Contains(body, ScriptTag) /\ Contains(body, OpenScript)) =>
                       r.kind = "Reflected" /\ r.tag = OpenScript
                /\ (~Contains(body, OpenScript) /\ Contains(body, CloseScript)) =>
                       r.kind = "Reflected" /\ r.tag = CloseScript

\* a body that is not empty and holds a part of the value, but no tag of it
C5_Witness ==
    \E i \in 1..N :
        /\ Fetched(i)
        /\ urls[i] = UrlScript
        /\ task[i].body = AlertCall
        /\ task[i].result.kind = "NotReflected"

C9_Original ==
    \A i \in 1..N :
        Fetched(i) =>
            /\ \A v \in RoundTripValues :
                  urls[i] = EncodedUrl(v) =>
                      DecodedValues(urls[i]) = <<[ok |-> TRUE, value |-> v]>>
            /\ DecodedValues(urls[i]) =
                  [k \in 1..Len(RawValues(urls[i])) |-> Decode(RawValues(urls[i])[k])]

\* the round trip alone, which the code does keep
C9_RoundTripOnly ==
    \A i \in 1..N :
        \A v \in RoundTripValues :
            urls[i] = EncodedUrl(v) => DecodedValues(urls[i]) = <<[ok |-> TRUE, value |-> v]>>

(***************************************************************************)
(* C10 as stated: the URL with x=%3Cimg%20src%3Dx%20onerror%3Dalert(1)%3E, *)
(* against a server whose body is the raw query string, is Reflected with  *)
(* the full tag.                                                           *)
(***************************************************************************)
C10_Original ==
    \A i \in 1..N :
        (Fetched(i) /\ urls[i] = UrlImg /\ server = "echo_raw") =>
            task[i].result.kind = "Reflected" /\ task[i].result.tag = ImgTag

(***************************************************************************)
(* C10 amended: against a server whose body is the raw query string the    *)
(* URL is NotReflected, no candidate being a substring of the encoded      *)
(* text; against a server whose body is the decoded query string it is     *)
(* Reflected and the tag is the full <img src=x onerror=alert(1)>, not the *)
(* onerror= or src= match; against a page that holds only the attribute    *)
(* texts the tag is the onerror= match.                                    *)
(***************************************************************************)
C10_FullTagOnDecodedEcho ==
    \A i \in 1..N :
        (Fetched(i) /\ urls[i] = UrlImg) =>
            LET r == task[i].result
            IN  /\ server = "echo_raw" =>
                       /\ task[i].body = Drop(UrlImg, Len(Base) + 1)
                       /\ r.kind = "NotReflected"
                /\ server = "echo_decoded" =>
                       /\ Contains(task[i].body, ImgTag)
                       /\ Contains(task[i].body, OnerrorAttr)
                       /\ r.kind = "Reflected"
                       /\ r.tag = ImgTag
                /\ server = "static" => r.kind = "Reflected" /\ r.tag = OnerrorAttr

\* the decoded echo: the full tag is reported
C10_Witness ==
    \E i \in 1..N :
        /\ Fetched(i)
        /\ urls[i] = UrlImg
        /\ server = "echo_decoded"
        /\ task[i].result.tag = ImgTag

(***************************************************************************)
(* C11: the custom headers of a request.                                   *)
(***************************************************************************)
HasColon(header) == \E k \in 1..Len(header) : header[k] = Ord(":")

\* the position of the first colon of a header string that has one
FirstColon(header) ==
    CHOOSE k \in 1..Len(header) :
        header[k] = Ord(":") /\ \A j \in 1..(k - 1) : header[j] # Ord(":")

ExpectedName(header) == Trim(Take(header, FirstColon(header) - 1))

ExpectedValue(header) == Trim(Drop(header, FirstColon(header)))

\* header names are compared without regard to case
SameHeaderName(a, b) == ToLower(a) = ToLower(b)

WithColon == SelectSeq(headers, HasColon)

\* C11: the headers attached to every request that is made are exactly the
\* header strings that contain a colon, in order, each as the trimmed text
\* before its first colon (the name) and the trimmed text after it (the value,
\* later colons included): "X-Test: 1" is sent as name X-Test, value 1; a
\* header string without a colon is dropped, causes no error and leaves the
\* request as it is without that string; the attached headers are the same
\* for every URL of the batch.
C11_AttachedHeaders ==
    \A i \in 1..N :
        task[i].pc # "idle" =>
            LET req == task[i].request
            IN  /\ req.ok =>
                    /\ Len(req.headers) = Len(WithColon)
                    /\ \A k \in 1..Len(WithColon) :
                          /\ SameHeaderName(req.headers[k].name, ExpectedName(WithColon[k]))
                          /\ req.headers[k].value = ExpectedValue(WithColon[k])
                          /\ WithColon[k] = HXTest =>
                                /\ SameHeaderName(req.headers[k].name,
                                                  Str(<<"X", "-", "T", "e", "s", "t">>))
                                /\ req.headers[k].value = Str(<<"1">>)
                          /\ WithColon[k] = HTwoColons =>
                                req.headers[k].value = Str(<<"b", ":", "c">>)
                /\ (/\ RequestBuilds(urls[i])
                    /\ \A k \in 1..Len(WithColon) :
                          /\ ValidHeaderName(ExpectedName(WithColon[k]))
                          /\ ValidHeaderValue(ExpectedValue(WithColon[k])))
                       => req.ok
                /\ req = BuildRequest(urls[i], WithColon)
                /\ \A j \in 1..N :
                      (task[j].pc # "idle" /\ req.ok /\ task[j].request.ok) =>
                          task[j].request.headers = req.headers

\* two requests of one batch were answered, each with the one header that is
\* left of a header string without a colon and a header string with two
C11_Witness ==
    /\ N = 2
    /\ headers = <<HNoColon, HTwoColons>>
    /\ \A i \in 1..N :
          /\ Fetched(i)
          /\ task[i].request.ok
          /\ Len(task[i].request.headers) = 1
          /\ task[i].request.headers[1].value = Str(<<"b", ":", "c">>)

(***************************************************************************)
(* C12: termination of the dispatcher.                                     *)
(***************************************************************************)
Returned == mainpc \in {"print", "done"}

\* a run that has been admitted is never taken back, and a finished run stays as it is
C12_NoCancel ==
    \A i \in 1..N :
        /\ task[i].pc # "idle" => task'[i].pc # "idle"
        /\ IsDone(i) => task'[i] = task[i]

\* C12: when every request is answered or fails, and the limit is at least 1,
\* every admitted run reaches a terminal state and the dispatcher returns; it
\* returns only after all N runs have completed, and no run is cancelled
\* after it was admitted.
C12_Terminates ==
    /\ [](threads >= 1)
    /\ [](Returned => (next > N /\ AllRunsDone /\ inflight = {} /\ Len(results) = N))
    /\ [][C12_NoCancel]_vars
    /\ \A i \in 1..MaxUrls : (i <= N /\ task[i].pc # "idle") ~> (i <= N /\ IsDone(i))
    /\ <>(mainpc = "done")

\* the dispatcher has returned from a batch of two runs that were in flight together
C12_Witness ==
    /\ N = 2
    /\ threads = 2
    /\ mainpc = "done"
    /\ AllRunsDone
    /\ Len(results) = 2
    /\ results[1].url = urls[2]
    /\ urls[1] # urls[2]

(***************************************************************************)
(* C13: the order of admission.                                            *)
(***************************************************************************)
Started(i) == task[i].pc # "idle"

\* the runs that have been started are those of the first next - 1 URLs
C13_StartedPrefix ==
    /\ next \in 1..(N + 1)
    /\ \A i \in 1..N : Started(i) <=> i < next
    /\ Returned => (N = 0 \/ next = N + 1)

\* a step starts at most one run: the run of the first URL not yet started,
\* for the URL at that place of the list; a started run is not started again
C13_StartStep ==
    /\ urls' = urls
    /\ \A i \in 1..N :
          /\ (~Started(i) /\ task'[i].pc # "idle") =>
                /\ \A j \in 1..(i - 1) : Started(j)
                /\ \A j \in (i + 1)..N : task'[j].pc = "idle"
                /\ task'[i].pc = "sending"
                /\ i = next
          /\ (Started(i) /\ task[i].pc # "sending") => task'[i].pc # "sending"

\* C13: runs are admitted in input order and each URL of the list is
\* submitted exactly once: the run of the i-th URL is never started before
\* the runs of all earlier URLs have been started, no URL is started twice,
\* and none is skipped.
C13_AdmittedInOrder == [](C13_StartedPrefix) /\ [][C13_StartStep]_vars

\* with a limit of 1 the second run has been started after the first was collected
C13_Witness ==
    /\ N = 2
    /\ threads = 1
    /\ Len(results) = 1
    /\ IsDone(1)
    /\ task[2].pc = "sending"
    /\ next = 3

(***************************************************************************)
(* C14: the dispatcher is work-conserving.                                 *)
(***************************************************************************)
\* a slot is free and a URL is waiting
FreeSlot == mainpc = "dispatch" /\ Cardinality(inflight) < threads /\ next <= N

\* while a slot is free and a URL is waiting, main takes no result and frees no slot
C14_AdmitFirst == FreeSlot => (results' = results /\ inflight \subseteq inflight')

\* every run but that of urls[s] is done and has been collected
OthersCompleted(s) ==
    \A i \in 1..N : i # s => (IsDone(i) /\ i \notin inflight /\ i < next)

\* C14: whenever fewer than K runs are in flight and URLs remain, the next
\* URL is admitted, whether or not a run in flight ever finishes, and before
\* main takes another result; a run that never completes holds only its own
\* slot: with K >= 2, when the requests of the other runs are answered, all
\* other URLs are admitted and completed.
C14_WorkConserving ==
    /\ [][C14_AdmitFirst]_vars
    /\ \A n \in 1..MaxUrls : (FreeSlot /\ next = n) ~> (next = n + 1)
    /\ \A s \in 1..MaxUrls :
          (\A i \in (1..MaxUrls) \ {s} : WF_vars(TaskStep(i)))
              => (threads >= 2 => <>OthersCompleted(s))

\* the first run is still waiting for its response; the second was admitted
\* beside it, has finished and has been collected
C14_Witness ==
    /\ N = 2
    /\ threads = 2
    /\ task[1].pc = "sending"
    /\ OthersCompleted(1)
    /\ Len(results) = 1

(***************************************************************************)
(* C15: the states a run goes through.                                     *)
(***************************************************************************)
\* the steps the finished run of urls[i] has taken, the fetch included
RunSteps(i) ==
    IF task[i].result.err = "HttpRequest"
    THEN <<"Fetching", "FetchFailed">>
    ELSE <<"Fetching", "Fetched">> \o StepsTable[urls[i]][task[i].body]

\* the place of a state in the order the claim gives
Rank(step) ==
    CASE step = "Fetching"                          -> 1
      [] step \in {"FetchFailed", "Fetched"}        -> 2
      [] step = "Decoding"                          -> 3
      [] step \in {"DecodeFailed", "Decoded"}       -> 4
      [] step = "Extracting"                        -> 5
      [] step = "Checking"                          -> 6
      [] step \in {"Reflected", "NotReflected"}     -> 7
      [] OTHER                                      -> 0

IsTerminalStep(step) ==
    step \in {"FetchFailed", "DecodeFailed", "Reflected", "NotReflected"}

\* C15 as stated: the steps of every finished run are taken in the order
\* Fetching, FetchFailed or Fetched, Decoding, DecodeFailed or Decoded,
\* Extracting, Checking, Reflected or NotReflected: the fetch is the first
\* step and is taken once, a run whose fetch failed takes no further step,
\* no decoding comes after an extraction or a check, and no step follows a
\* terminal one.
C15_Original ==
    \A i \in 1..N :
        IsDone(i) =>
            LET steps == RunSteps(i)
            IN  /\ steps[1] = "Fetching"
                /\ \A p \in 2..Len(steps) : steps[p] # "Fetching"
                /\ task[i].result.err = "HttpRequest" => Len(steps) = 2
                /\ \A p \in 1..Len(steps) : Rank(steps[p]) > 0
                /\ \A p \in 1..Len(steps), q \in 1..Len(steps) :
                      p < q => Rank(steps[p]) <= Rank(steps[q])
                /\ \A p \in 1..Len(steps) : IsTerminalStep(steps[p]) <=> p = Len(steps)

(***************************************************************************)
(* C16: a value that does not decode.                                      *)
(***************************************************************************)
\* C16 as stated: when the value of any query parameter of a fetched URL fails
\* to decode, the outcome is Failed (a decoding error), whatever the place of
\* that parameter and whatever the other parameters hold; such a URL is never
\* reported Reflected.
C16_Original ==
    \A i \in 1..N :
        (Fetched(i) /\ ~AllDecode(urls[i])) =>
            /\ task[i].result.kind = "Error"
            /\ task[i].result.err = "Decoding"
            /\ task[i].result.kind # "Reflected"

(***************************************************************************)
(* C17: the kind of a failure.                                             *)
(***************************************************************************)
\* whether Url::parse accepts the text of each URL
ParsesTable == [u \in AllUrls |-> UrlParse(u).ok]

Malformed(url) == ~ParsesTable[url]

\* C17 as stated: the kind of a Failed outcome names its cause: a malformed
\* URL gives a URL parse error, a failure of the network or of reading the
\* body gives a fetch error, a value that does not decode gives a decoding
\* error; a malformed URL is never reported as a fetch failure.
C17_Original ==
    \A i \in 1..N :
        (IsDone(i) /\ task[i].result.kind = "Error") =>
            LET err == task[i].result.err
            IN  /\ err \in {"UrlParse", "HttpRequest", "Decoding"}
                /\ Malformed(urls[i]) <=> err = "UrlParse"
                /\ err = "HttpRequest" => ~Malformed(urls[i])
                /\ err = "Decoding" => ~AllDecode(urls[i])

(***************************************************************************)
(* C18: the output of the tag extractor.                                   *)
(***************************************************************************)
\* the places of text where a match of pat begins
MatchStarts(pat, text) == {k \in 1..Len(text) : MatchEnd(pat, text, k) > 0}

\* the starts of the matches of pat taken from left to right without overlap:
\* a match is taken exactly when no taken match to its left reaches it
TakenStarts(pat, text) ==
    CHOOSE S \in SUBSET MatchStarts(pat, text) :
        \A k \in MatchStarts(pat, text) :
            k \in S <=> \A j \in S : j < k => MatchEnd(pat, text, j) < k

\* the members of a set of numbers in increasing order
Ascending(S) ==
    CHOOSE f \in [1..Cardinality(S) -> S] :
        \A a \in 1..Cardinality(S), b \in 1..Cardinality(S) : a < b => f[a] < f[b]

RuleMatches(pat, text) ==
    LET starts == Ascending(TakenStarts(pat, text))
    IN  [j \in 1..Len(starts) |-> SubSeq(text, starts[j], MatchEnd(pat, text, starts[j]))]

\* the matches of the rules p..11, rule after rule
RECURSIVE RulesFrom(_, _)
RulesFrom(text, p) ==
    IF p > 11 THEN <<>> ELSE RuleMatches(Patterns[p], text) \o RulesFrom(text, p + 1)

NoRuleMatches(text) == \A p \in 1..11 : MatchStarts(Patterns[p], text) = {}

\* for every value of u that decodes: the extractor's output is the matches
\* rule after rule, and it is None exactly when no rule matches
ExtractorAgrees(u) ==
    \A k \in 1..Len(DecodedValues(u)) :
        DecodedValues(u)[k].ok =>
            LET text == DecodedValues(u)[k].value
                out  == extract_tags_from_param(text)
            IN  /\ out.tags = RulesFrom(text, 1)
                /\ ~out.some <=> NoRuleMatches(text)
                /\ ~out.some <=> out.tags = <<>>

ExtractorTable == [u \in PipelineUrls |-> ExtractorAgrees(u)]

\* C18: the output of the tag extractor is the concatenation, over the eleven
\* rules in their fixed order, of each rule's non-overlapping matches from
\* left to right; a text that is matched more than once appears once per
\* match (nothing is removed as a duplicate); the output is empty exactly
\* when no rule matches.
C18_ExtractorOutput ==
    /\ Len(Patterns) = 11
    /\ \A i \in 1..N : Started(i) => ExtractorTable[urls[i]]

\* a fetched URL whose value <b><b> gives the same tag twice
C18_Witness ==
    \E i \in 1..N :
        /\ Fetched(i)
        /\ urls[i] = UrlRepeatedTag
        /\ AllCandidates(urls[i]) = <<BoldTag, BoldTag>>
        /\ task[i].result.kind = "Reflected"

(***************************************************************************)
(* C19: where the candidate tags come from.                                *)
(***************************************************************************)
\* the texts of the query parameter values of each URL, decoded as the code
\* decodes them, taken from the values of the raw query
ValueTextTable ==
    [u \in PipelineUrls |->
        {Decode(FormDecode(RawValues(u)[k])).value : k \in 1..Len(RawValues(u))}]

ValueTexts(url) == ValueTextTable[url]

\* C19: candidate tags come only from query parameter values: a reported tag
\* is part of the decoded text of a value of the URL's query; the names of
\* the parameters, the path and the fragment contribute nothing, so a URL
\* whose tag text appears only in a parameter name, in the path or in the
\* fragment is never reported Reflected, whatever the body holds.
C19_OnlyValuesContribute ==
    \A i \in 1..N :
        IsDone(i) =>
            /\ task[i].result.kind = "Reflected" =>
                  \E text \in ValueTexts(urls[i]) : Contains(text, task[i].result.tag)
            /\ \A k \in 1..Len(AllCandidates(urls[i])) :
                  \E text \in ValueTexts(urls[i]) : Contains(text, AllCandidates(urls[i])[k])
            /\ urls[i] \in {UrlTagInKey, UrlTagInPath} =>
                  /\ AllCandidates(urls[i]) = <<>>
                  /\ task[i].result.kind # "Reflected"

\* the tag <b> is the name of a parameter and is in the body; the URL is NotReflected
C19_Witness ==
    \E i \in 1..N :
        /\ Fetched(i)
        /\ urls[i] = UrlTagInKey
        /\ Contains(task[i].body, BoldTag)
        /\ task[i].result.kind = "NotReflected"

(***************************************************************************)
(* C20: the outcome of a URL depends on its own request only.              *)
(***************************************************************************)
\* what came back for the request of the finished run i: an error, or a
\* status and a body
ResponseOf(i) ==
    IF task[i].result.err = "HttpRequest"
    THEN <<"error">>
    ELSE <<"response", task[i].status, task[i].body>>

\* the outcome as a function of the URL, the header list and what came back
OutcomeOf(url, custom_headers, response) ==
    IF response[1] = "error" \/ ~RequestTable[url][custom_headers].ok
    THEN Failed(url, "HttpRequest")
    ELSE LET r == CheckTable[url][response[2]][response[3]]
         IN  IF r.ok THEN r.result ELSE Failed(url, r.result.err)

C20_OwnRequestOnly ==
    \A i \in 1..N :
        IsDone(i) =>
            /\ task[i].result = OutcomeOf(urls[i], headers, ResponseOf(i))
            /\ \A j \in 1..N :
                  (IsDone(j) /\ urls[j] = urls[i] /\ ResponseOf(j) = ResponseOf(i)) =>
                      task[j].result = task[i].result

\* a step changes the record of at most one run, and only a step that
\* leaves the results, the print-out and the inputs as they are changes any
C20_NoSharedState ==
    \A i \in 1..N :
        task'[i] # task[i] =>
            /\ \A j \in 1..N : j # i => task'[j] = task[j]
            /\ UNCHANGED <<urls, headers, threads, server, results, printed>>

\* C20: the outcome of a URL is a function of that URL, the header list and
\* the response (or error) to that URL's own request: whatever the limit,
\* the other URLs of the batch and the interleaving, a run that gets the
\* same response gives the same outcome, and no run writes state that
\* another run reads.
C20_OutcomeIsLocal == [](C20_OwnRequestOnly) /\ [][C20_NoSharedState]_vars

\* two runs of one URL under a limit of 2, answered with different statuses
\* and collected in the reverse order, each with the outcome of its own response
C20_Witness ==
    /\ N = 2
    /\ threads = 2
    /\ urls[1] = urls[2]
    /\ AllRunsDone
    /\ Len(results) = 2
    /\ task[1].status = 404
    /\ task[2].status = 200
    /\ results[1] = task[2].result
    /\ results[1].kind = "Reflected"
    /\ results[1].status = 200
    /\ results[2].status = 404

====
